---- MODULE Spec2Model ----
(***************************************************************************)
(* A model of dbbench.py: the unit formatter humanize_us, the value        *)
(* objects QueryStatistic and DatabaseSpec, the query normalizer           *)
(* CleanQuery and the driver RunDbbench.                                   *)
(*                                                                         *)
(* Text is a sequence of one-character strings, so that parsing and        *)
(* formatting are computed character by character.  Python integers are    *)
(* unbounded; the microsecond values that reach the hour scale             *)
(* (3600000000) exceed the 32-bit integers of TLC, so a microsecond count  *)
(* is held as two limbs, hi * 10^6 + lo.                                   *)
(***************************************************************************)
EXTENDS Integers, Sequences, FiniteSets, TLC

VARIABLES
    hum,          \* the last humanize_us call: its argument and its result
    qs,           \* the last QueryStatistic construction
    db,           \* the last DatabaseSpec construction
    cq,           \* the last CleanQuery call
    level,        \* logger.getEffectiveLevel()
    pyMajor,      \* major version of the interpreter running the module
    pc,           \* position of the RunDbbench call
    startLevel,   \* what logger.getEffectiveLevel() returned to the call
    keepTemporaryFiles, \* the local of RunDbbench
    fileExists,   \* whether the temporary stats file exists on disk
    fileLines,    \* the lines of the temporary stats file
    proc,         \* the dbbench process: not started, exited, or not found
    exitCode,     \* exit code of the dbbench process
    output,       \* combined stdout/stderr of the dbbench process
    result        \* how the RunDbbench call ended

vars == <<hum, qs, db, cq, level, pyMajor, pc, startLevel,
          keepTemporaryFiles, fileExists, fileLines, proc, exitCode, output,
          result>>

humVars == <<hum>>
qsVars  == <<qs>>
dbVars  == <<db>>
cqVars  == <<cq>>
runVars == <<level, pyMajor, pc, startLevel, keepTemporaryFiles, fileExists,
             fileLines, proc, exitCode, output, result>>

(***************************************************************************)
(* Characters and decimal numerals.                                        *)
(***************************************************************************)
DigitChars == <<"0", "1", "2", "3", "4", "5", "6", "7", "8", "9">>

DigitChar(d) == DigitChars[d + 1]

IsDigitChar(c) == \E i \in 1..10 : DigitChars[i] = c

DigitValue(c) == CHOOSE d \in 0..9 : DigitChars[d + 1] = c

\* The decimal digits of a natural number, most significant first.
RECURSIVE NatDigits(_)
NatDigits(n) ==
    IF n < 10 THEN <<n>> ELSE Append(NatDigits(n \div 10), n % 10)

\* The last w decimal digits of n, zero padded.
RECURSIVE PadDigits(_, _)
PadDigits(n, w) ==
    IF w = 0 THEN <<>> ELSE Append(PadDigits(n \div 10, w - 1), n % 10)

\* "%d" of a natural number.
DigitsText(ds) == [i \in 1..Len(ds) |-> DigitChar(ds[i])]

(***************************************************************************)
(* humanize_us                                                             *)
(***************************************************************************)
Big(hi, lo) == [hi |-> hi, lo |-> lo]

BigGE(a, b) == a.hi > b.hi \/ (a.hi = b.hi /\ a.lo >= b.lo)

BigGT(a, b) == a.hi > b.hi \/ (a.hi = b.hi /\ a.lo > b.lo)

BigDigits(v) ==
    IF v.hi = 0 THEN NatDigits(v.lo) ELSE NatDigits(v.hi) \o PadDigits(v.lo, 6)

\* The (fmt, scale) list of the loop, in its order.  float tells a float
\* scale ('%.3f' of a true division) from the integer scale 1 ('%d').
Scales ==
    << [fmt |-> <<"h">>,      float |-> TRUE,  scale |-> Big(3600, 0)],
       [fmt |-> <<"m">>,      float |-> TRUE,  scale |-> Big(60, 0)],
       [fmt |-> <<"s">>,      float |-> TRUE,  scale |-> Big(1, 0)],
       [fmt |-> <<"m", "s">>, float |-> TRUE,  scale |-> Big(0, 1000)],
       [fmt |-> <<"u", "s">>, float |-> FALSE, scale |-> Big(0, 1)] >>

\* scale / 1000: dividing by it gives the value in thousandths of the unit.
Milli(s) == s.hi * 1000 + s.lo \div 1000

\* Schoolbook division of a digit sequence by k: quotient and remainder.
RECURSIVE LongDiv(_, _, _, _)
LongDiv(ds, k, q, r) ==
    IF ds = <<>> THEN [q |-> q, r |-> r]
    ELSE LET cur == r * 10 + Head(ds)
         IN  LongDiv(Tail(ds), k, q * 10 + cur \div k, cur % k)

RECURSIVE Log2(_)
Log2(n) == IF n < 2 THEN 0 ELSE 1 + Log2(n \div 2)

RECURSIVE Pow2Mod125(_)
Pow2Mod125(k) == IF k = 0 THEN 1 ELSE (2 * Pow2Mod125(k - 1)) % 125

\* micros/scale is the IEEE double nearest to the quotient, and '%.3f'
\* rounds that double correctly.  The two roundings matter only when the
\* quotient lies exactly half way between two thousandths, z = n/2000 with
\* n odd: the double's 53-bit significand is z * 2^(52-e) = n * 2^(48-e)/125
\* rounded to an integer, so the residue of n * 2^(48-e) modulo 125 tells
\* whether the double lies below z (-1), on it (0) or above it (1).
DoubleSide(n) ==
    LET e   == Log2(n \div 2000)
        res == ((n % 125) * Pow2Mod125(48 - e)) % 125
    IN  IF res = 0 THEN 0 ELSE IF res <= 62 THEN -1 ELSE 1

\* The thousandths that '%.3f' % (micros/scale) shows.
Thousandths(micros, scale) ==
    LET k == Milli(scale)
        d == LongDiv(BigDigits(micros), k, 0, 0)
    IN  IF 2 * d.r < k THEN d.q
        ELSE IF 2 * d.r > k THEN d.q + 1
        ELSE LET side == DoubleSide(2 * d.q + 1)
             IN  IF side < 0 THEN d.q
                 ELSE IF side > 0 THEN d.q + 1
                 ELSE IF d.q % 2 = 0 THEN d.q ELSE d.q + 1

\* '%.3f<unit>' of a value given in thousandths.
FormatFloat(th, unit) ==
    DigitsText(NatDigits(th \div 1000)) \o <<".">>
        \o DigitsText(PadDigits(th % 1000, 3)) \o unit

\* fmt % (micros/scale)
FormatScale(entry, micros) ==
    IF entry.float
    THEN FormatFloat(Thousandths(micros, entry.scale), entry.fmt)
    ELSE DigitsText(BigDigits(micros)) \o entry.fmt

\* A faulty variant: the scale test with > in place of >=.
RECURSIVE humanize_us_gt(_, _)
humanize_us_gt(micros, i) ==
    IF i > Len(Scales) THEN <<"0", "u", "s">>
    ELSE IF BigGT(micros, Scales[i].scale) THEN FormatScale(Scales[i], micros)
    ELSE humanize_us_gt(micros, i + 1)

\* The loop of humanize_us from its i-th entry on.
RECURSIVE humanize_us_from(_, _)
humanize_us_from(micros, i) ==
    IF i > Len(Scales) THEN <<"0", "u", "s">>
    ELSE IF BigGE(micros, Scales[i].scale) THEN FormatScale(Scales[i], micros)
    ELSE humanize_us_from(micros, i + 1)

humanize_us(micros) == humanize_us_from(micros, 1)

\* The arguments tried: every value within Spread of a scale boundary or of
\* a value whose quotient lies half way between two thousandths.
Spread == 4

Base == 1000 * 1000

Near(p, d) ==
    IF p.lo + d < 0 THEN Big(p.hi - 1, p.lo + d + Base)
    ELSE IF p.lo + d >= Base THEN Big(p.hi + 1, p.lo + d - Base)
    ELSE Big(p.hi, p.lo + d)

Points ==
    { Scales[i].scale : i \in 1..Len(Scales) }
        \cup { Big(0, 500), Big(0, 999999), Big(1, 500), Big(1, 62500),
               Big(1, 187500), Big(2, 500), Big(59, 999500), Big(90, 30000),
               Big(3661, 0), Big(5400, 0), Big(9001, 800000) }

MicrosValues ==
    { v \in { Near(p, d) : p \in Points, d \in (0 - Spread)..Spread } :
        v.hi >= 0 }

HumRest == hum = [pc |-> "rest", micros |-> Big(0, 0), out |-> <<>>]

\* A call about to be made, with its argument.
HumInit == hum \in { [pc |-> "call", micros |-> v, out |-> <<>>] : v \in MicrosValues }

\* humanize_us(micros)
Humanize ==
    /\ hum.pc = "call"
    /\ hum' = [hum EXCEPT !.pc = "done", !.out = humanize_us(hum.micros)]
    /\ UNCHANGED <<qsVars, dbVars, cqVars, runVars>>

HumNext == Humanize

(***************************************************************************)
(* C10: humanize_us(v), for a non-negative integer v, carries the unit of  *)
(* the largest scale <= v (a value equal to a scale takes that scale's     *)
(* unit), shows v/scale rounded to three decimals for every unit but       *)
(* microseconds, shows microseconds as the integer itself, and is "0us"    *)
(* exactly when v is 0.                                                    *)
(***************************************************************************)
LargestScale(v) ==
    CHOOSE i \in 1..Len(Scales) :
        /\ BigGE(v, Scales[i].scale)
        /\ \A j \in 1..Len(Scales) :
               BigGE(v, Scales[j].scale) => BigGE(Scales[i].scale, Scales[j].scale)

RendersQuotient(out, v, entry) ==
    LET k == Milli(entry.scale)
        d == LongDiv(BigDigits(v), k, 0, 0)
    IN  \E th \in {d.q, d.q + 1} :
            /\ 2 * d.r < k => th = d.q
            /\ 2 * d.r > k => th = d.q + 1
            /\ out = DigitsText(NatDigits(th \div 1000)) \o <<".">>
                       \o DigitsText(PadDigits(th % 1000, 3)) \o entry.fmt

C10_HumanizeUnit ==
    hum.pc = "done" =>
        LET v == hum.micros IN
        /\ (hum.out = <<"0", "u", "s">>) <=> (v = Big(0, 0))
        /\ v # Big(0, 0) =>
              LET entry == Scales[LargestScale(v)] IN
              IF entry.fmt = <<"u", "s">>
              THEN hum.out = DigitsText(BigDigits(v)) \o <<"u", "s">>
              ELSE RendersQuotient(hum.out, v, entry)

\* 1000 has been formatted, as "1.000ms".
C10_Witness ==
    /\ hum.pc = "done"
    /\ hum.micros = Big(0, 1000)
    /\ hum.out = <<"1", ".", "0", "0", "0", "m", "s">>

(***************************************************************************)
(* Python values: an absent argument, None, a str or an int.               *)
(***************************************************************************)
Absent  == [t |-> "absent", s |-> <<>>, n |-> 0]
None    == [t |-> "None",   s |-> <<>>, n |-> 0]
StrV(s)  == [t |-> "str",    s |-> s,    n |-> 0]
IntV(n)  == [t |-> "int",    s |-> <<>>, n |-> n]

\* bool(v)
Truthy(v) ==
    \/ v.t = "str" /\ v.s # <<>>
    \/ v.t = "int" /\ v.n # 0

\* The texts of the model are ASCII.  LineTab is the vertical tab, U+000B,
\* which has no escape in a string.
LineTab == ""

\* The whitespace int() drops, the same six characters for a Python 2 str
\* and for the ASCII part of a Python 3 str.
IsSpace(c) == c \in {" ", "\t", "\n", "\r", "\f", LineTab}

RECURSIVE LStrip(_)
LStrip(s) == IF s # <<>> /\ IsSpace(Head(s)) THEN LStrip(Tail(s)) ELSE s

RECURSIVE RStrip(_)
RStrip(s) ==
    IF s # <<>> /\ IsSpace(s[Len(s)]) THEN RStrip(SubSeq(s, 1, Len(s) - 1))
    ELSE s

RECURSIVE DigitsValue(_, _)
DigitsValue(s, acc) ==
    IF s = <<>> THEN acc ELSE DigitsValue(Tail(s), acc * 10 + DigitValue(Head(s)))

AllDigits(s) == s # <<>> /\ \A i \in 1..Len(s) : IsDigitChar(s[i])

\* Digits grouped by single underscores, each between two digits.
GroupedDigits(s) ==
    /\ s # <<>>
    /\ \A i \in 1..Len(s) :
          \/ IsDigitChar(s[i])
          \/ /\ s[i] = "_"
             /\ 1 < i /\ i < Len(s)
             /\ IsDigitChar(s[i - 1]) /\ IsDigitChar(s[i + 1])

WithoutUnderscores(s) == SelectSeq(s, LAMBDA c : c # "_")

\* What is left of a literal for the digits: Python 2 (PyOS_strtol) skips
\* whitespace once more after the sign, Python 3 does not; Python 3 (3.6
\* and later) lets single underscores group the digits, Python 2 does not.
DigitsPart(py, afterSign) ==
    IF py < 3 THEN LStrip(afterSign)
    ELSE IF GroupedDigits(afterSign) THEN WithoutUnderscores(afterSign)
    ELSE afterSign

\* A faulty variant: the sign of the literal is dropped.
ParseInt_unsigned(py, s) ==
    LET body   == RStrip(LStrip(s))
        signed == body # <<>> /\ Head(body) \in {"+", "-"}
        digits == DigitsPart(py, IF signed THEN Tail(body) ELSE body)
    IN  IF AllDigits(digits)
        THEN [ok |-> TRUE, n |-> DigitsValue(digits, 0)]
        ELSE [ok |-> FALSE, n |-> 0]

\* int(s) of a str under interpreter py: surrounding whitespace is dropped,
\* one sign is allowed, the rest must be the digits; anything else is a
\* ValueError.
ParseInt(py, s) ==
    LET body   == RStrip(LStrip(s))
        signed == body # <<>> /\ Head(body) \in {"+", "-"}
        digits == DigitsPart(py, IF signed THEN Tail(body) ELSE body)
        mag    == DigitsValue(digits, 0)
    IN  IF AllDigits(digits)
        THEN [ok |-> TRUE,
              n  |-> IF signed /\ Head(body) = "-" THEN 0 - mag ELSE mag]
        ELSE [ok |-> FALSE, n |-> 0]

\* repr() of a str of printable ASCII characters and the whitespace above:
\* single quotes, unless the text holds a single quote and no double one;
\* the backslash and the quote in use are escaped, a tab, a newline and a
\* carriage return are written \t, \n and \r, the other two control
\* characters in hexadecimal.
ReprQuote(s) ==
    IF (\E i \in 1..Len(s) : s[i] = "'") /\ ~(\E i \in 1..Len(s) : s[i] = "\"")
    THEN "\"" ELSE "'"

ReprChar(c, quote) ==
    IF c = "\\" \/ c = quote THEN <<"\\", c>>
    ELSE IF c = "\t" THEN <<"\\", "t">>
    ELSE IF c = "\n" THEN <<"\\", "n">>
    ELSE IF c = "\r" THEN <<"\\", "r">>
    ELSE IF c = "\f" THEN <<"\\", "x", "0", "c">>
    ELSE IF c = LineTab THEN <<"\\", "x", "0", "b">>
    ELSE <<c>>

\* The characters of s, each as repr writes it (the text is taken in
\* halves).
RECURSIVE ReprBody(_, _)
ReprBody(s, quote) ==
    IF s = <<>> THEN <<>>
    ELSE IF Len(s) = 1 THEN ReprChar(s[1], quote)
    ELSE ReprBody(SubSeq(s, 1, Len(s) \div 2), quote)
             \o ReprBody(SubSeq(s, Len(s) \div 2 + 1, Len(s)), quote)

Repr(s) == <<ReprQuote(s)>> \o ReprBody(s, ReprQuote(s)) \o <<ReprQuote(s)>>

\* The first n characters of s.
Take(s, n) == SubSeq(s, 1, IF Len(s) < n THEN Len(s) ELSE n)

\* What the message of the ValueError of int() ends with.  Python 2 writes
\* the repr of the first 200 characters of the text that follows the
\* leading whitespace; Python 3 writes the first 200 characters of the repr
\* of the whole text.
RejectedLiteral(py, s) ==
    IF py < 3 THEN Repr(Take(LStrip(s), 200)) ELSE Take(Repr(s), 200)

\* int(v): an int is returned as it is, a str is parsed, None is a
\* TypeError.  info is what the exception's message carries: the quoted
\* literal, as it stands in the message, for the ValueError, the name of
\* the type for the TypeError.
PyInt(py, v) ==
    IF v.t = "int" THEN [err |-> "", n |-> v.n, info |-> <<>>]
    ELSE IF v.t = "str"
         THEN IF ParseInt(py, v.s).ok
              THEN [err |-> "", n |-> ParseInt(py, v.s).n, info |-> <<>>]
              ELSE [err |-> "ValueError", n |-> 0,
                    info |-> RejectedLiteral(py, v.s)]
    ELSE [err |-> "TypeError", n |-> 0, info |-> <<"NoneType">>]

(***************************************************************************)
(* QueryStatistic                                                          *)
(***************************************************************************)
NoStat == [kind |-> "none", name |-> None, startMicros |-> 0,
           elapsedMicros |-> 0, rowsAffected |-> 0, info |-> <<>>]

\* An exception leaving the constructor, with what its message carries.
StatError(kind, info) == [NoStat EXCEPT !.kind = kind, !.info = info]

\* The parameters of __init__ after self.
StatParams == <<"name", "startMicros", "elapsedMicros", "rowsAffected">>

\* What the TypeError of a call with n arguments, n not 4, carries.
\* Python 2: "takes exactly 5 arguments (k given)", k counting self.
\* Python 3: "takes 5 positional arguments but k were given" for too many,
\* "missing ... required positional arguments: " and the names of the
\* parameters left without a value for too few.
ArgCountInfo(py, n) ==
    IF py < 3 \/ n > 4 THEN DigitsText(NatDigits(n + 1))
    ELSE SubSeq(StatParams, n + 1, 4)

\* QueryStatistic(*args): four arguments are required; the three numeric
\* ones pass through int() in the order of the assignments.
QueryStatistic(py, args) ==
    IF Len(args) # 4 THEN StatError("TypeError", ArgCountInfo(py, Len(args)))
    ELSE LET a == PyInt(py, args[2])
             b == PyInt(py, args[3])
             c == PyInt(py, args[4])
         IN  IF a.err # "" THEN StatError(a.err, a.info)
             ELSE IF b.err # "" THEN StatError(b.err, b.info)
             ELSE IF c.err # "" THEN StatError(c.err, c.info)
             ELSE [kind |-> "ok", name |-> args[1], startMicros |-> a.n,
                   elapsedMicros |-> b.n, rowsAffected |-> c.n, info |-> <<>>]

\* A text longer than the 200 characters an error message quotes.
LongText == [i \in 1..201 |-> "x"]

\* Arguments tried for a direct construction.
StatNames == { StrV(<<"q">>), StrV(<<>>) }

StatNumbers ==
    { IntV(0), IntV(7), IntV(0 - 3), None,
      StrV(<<"0">>), StrV(<<"1", "2">>), StrV(<<"-", "1">>), StrV(<<"+", "5">>),
      StrV(<<" ", "4", " ">>), StrV(<<"x">>), StrV(<<"1", ".", "5">>), StrV(<<>>),
      StrV(<<"-", " ", "1">>), StrV(<<"1", "_", "2">>), StrV(<<"\r", "5", LineTab>>),
      StrV(<<" ", "x", " ">>), StrV(<<"0", "0", "7">>), StrV(<<"-", "0">>),
      StrV(<<"\t", "'", "\\">>), StrV(LongText) }

StatArgs ==
    { <<nm, a, b, c>> : nm \in StatNames, a \in StatNumbers, b \in StatNumbers,
                        c \in StatNumbers }
        \cup { <<nm, a, b>> : nm \in StatNames, a \in StatNumbers, b \in StatNumbers }
        \cup { <<nm, a, b, b, a>> : nm \in StatNames, a \in StatNumbers,
                                    b \in StatNumbers }

QsRest == qs = [pc |-> "rest", args |-> <<>>, out |-> NoStat]

QsInit == qs \in { [pc |-> "call", args |-> a, out |-> NoStat] : a \in StatArgs }

\* QueryStatistic(*args)
Construct ==
    /\ qs.pc = "call"
    /\ qs' = [qs EXCEPT !.pc = "done", !.out = QueryStatistic(pyMajor, qs.args)]
    /\ UNCHANGED <<humVars, dbVars, cqVars, runVars>>

QsNext == Construct

(***************************************************************************)
(* DatabaseSpec                                                            *)
(***************************************************************************)
Localhost == <<"l", "o", "c", "a", "l", "h", "o", "s", "t">>
Root      == <<"r", "o", "o", "t">>
Mysql     == <<"m", "y", "s", "q", "l">>

DefaultPort == 3306

\* A parameter left out of the call is bound to its default.
Param(v, default) == IF v.t = "absent" THEN default ELSE v

\* A faulty variant: only None falls back to the default.
OrDefault_noneOnly(v, default) == IF v.t = "None" THEN default ELSE v

\* v if v else default
OrDefault(v, default) == IF Truthy(v) THEN v ELSE default

\* A faulty variant: a port that int() rejects falls back to the default.
PortOf_fallback(py, port) ==
    IF Truthy(port) /\ PyInt(py, port).err = "" THEN PyInt(py, port)
    ELSE [err |-> "", n |-> DefaultPort, info |-> <<>>]

\* int(port) if port else 3306
PortOf(py, port) ==
    IF Truthy(port) THEN PyInt(py, port)
    ELSE [err |-> "", n |-> DefaultPort, info |-> <<>>]

NoSpec == [kind |-> "none", host |-> None, port |-> None, user |-> None,
           password |-> None, database |-> None, driver |-> None]

DatabaseSpec(py, host, port, user, password, database, driver) ==
    LET p == PortOf(py, Param(port, IntV(DefaultPort)))
    IN  IF p.err # "" THEN [NoSpec EXCEPT !.kind = p.err]
        ELSE [kind     |-> "ok",
              host     |-> OrDefault(Param(host, StrV(Localhost)), StrV(Localhost)),
              port     |-> IntV(p.n),
              user     |-> OrDefault(Param(user, StrV(Root)), StrV(Root)),
              password |-> OrDefault(Param(password, StrV(<<>>)), StrV(<<>>)),
              database |-> OrDefault(Param(database, StrV(<<>>)), StrV(<<>>)),
              driver   |-> OrDefault(Param(driver, StrV(Mysql)), StrV(Mysql))]

\* Arguments tried: absent, None, empty or zero, and concrete values.
TextArgs == { Absent, None, StrV(<<>>), StrV(<<"x">>) }

PortArgs ==
    { Absent, None, IntV(0), StrV(<<>>), IntV(8080), IntV(0 - 5),
      StrV(<<"8", "0", "8", "0">>), StrV(<<"0">>), StrV(<<"-", "1">>),
      StrV(<<"a", "b", "c">>), StrV(<<"1", "_", "2">>),
      StrV(<<"-", " ", "1">>), StrV(<<"\t", "a", "b", " ">>),
      StrV(<<"0", "0", "7">>) }

NoArgs == [host |-> Absent, port |-> Absent, user |-> Absent,
           password |-> Absent, database |-> Absent, driver |-> Absent]

DbArgs ==
    [host : TextArgs, port : PortArgs, user : TextArgs, password : TextArgs,
     database : TextArgs, driver : TextArgs]

DbRest == db = [pc |-> "rest", args |-> NoArgs, out |-> NoSpec]

DbInit == db \in { [pc |-> "call", args |-> a, out |-> NoSpec] : a \in DbArgs }

\* DatabaseSpec(host, port, user, password, database, driver)
NewSpec ==
    /\ db.pc = "call"
    /\ db' = [db EXCEPT !.pc = "done",
                        !.out = DatabaseSpec(pyMajor, db.args.host,
                                             db.args.port, db.args.user,
                                             db.args.password,
                                             db.args.database, db.args.driver)]
    /\ UNCHANGED <<humVars, qsVars, cqVars, runVars>>

DbNext == NewSpec

(***************************************************************************)
(* CleanQuery                                                              *)
(***************************************************************************)
\* The names the module binds by its import statements.
ImportedNames == {"csv", "logging", "subprocess", "os", "NamedTemporaryFile"}

\* query.split("\n")
RECURSIVE SplitOn(_, _, _)
SplitOn(s, sep, cur) ==
    IF s = <<>> THEN <<cur>>
    ELSE IF Head(s) = sep THEN <<cur>> \o SplitOn(Tail(s), sep, <<>>)
    ELSE SplitOn(Tail(s), sep, Append(cur, Head(s)))

\* re.sub(r"--.*$", "", l): the line up to its first "--".
RECURSIVE StripComment(_)
StripComment(l) ==
    IF Len(l) < 2 THEN l
    ELSE IF l[1] = "-" /\ l[2] = "-" THEN <<>>
    ELSE <<Head(l)>> \o StripComment(Tail(l))

\* " ".join(parts)
RECURSIVE JoinWith(_, _)
JoinWith(parts, sep) ==
    IF Len(parts) = 1 THEN parts[1]
    ELSE parts[1] \o <<sep>> \o JoinWith(Tail(parts), sep)

RECURSIVE LStripBlanks(_)
LStripBlanks(s) ==
    IF s # <<>> /\ Head(s) = " " THEN LStripBlanks(Tail(s)) ELSE s

RECURSIVE RStripBlanks(_)
RStripBlanks(s) ==
    IF s # <<>> /\ s[Len(s)] = " " THEN RStripBlanks(SubSeq(s, 1, Len(s) - 1))
    ELSE s

\* re.sub(r"(^ +)|( +$)", "", query)
TrimBlanks(s) == RStripBlanks(LStripBlanks(s))

\* re.sub(r" +", " ", query)
RECURSIVE CollapseBlanks(_)
CollapseBlanks(s) ==
    IF Len(s) < 2 THEN s
    ELSE IF s[1] = " " /\ s[2] = " " THEN CollapseBlanks(Tail(s))
    ELSE <<Head(s)>> \o CollapseBlanks(Tail(s))

\* The body of CleanQuery, as it runs once "re" resolves.
CleanQueryBody(query) ==
    LET lines == SplitOn(query, "\n", <<>>)
    IN  CollapseBlanks(TrimBlanks(
            JoinWith([i \in 1..Len(lines) |-> StripComment(lines[i])], " ")))

\* CleanQuery(query): the first re.sub looks the global name "re" up; the
\* module never binds it, and the lookup raises NameError.
CleanQuery(query) ==
    IF "re" \in ImportedNames
    THEN [kind |-> "ok", value |-> CleanQueryBody(query)]
    ELSE [kind |-> "NameError", value |-> <<>>]

MaxQueryLen == 3

QueryChars == {"a", " ", "-", "\n", "\t"}

Queries == UNION { [1..n -> QueryChars] : n \in 0..MaxQueryLen }

NoText == [kind |-> "none", value |-> <<>>]

CqRest == cq = [pc |-> "rest", query |-> <<>>, out |-> NoText, again |-> NoText]

CqInit ==
    cq \in { [pc |-> "call", query |-> q, out |-> NoText, again |-> NoText] :
               q \in Queries }

\* CleanQuery(CleanQuery(query)): out is what the inner call gives, again
\* what the outer call gives; an exception of the inner call is the
\* outcome of the whole expression.
Clean ==
    LET out == CleanQuery(cq.query)
    IN  /\ cq.pc = "call"
        /\ cq' = [cq EXCEPT !.pc = "done", !.out = out,
                            !.again = IF out.kind = "ok"
                                      THEN CleanQuery(out.value) ELSE out]
        /\ UNCHANGED <<humVars, qsVars, dbVars, runVars>>

CqNext == Clean

(***************************************************************************)
(* RunDbbench                                                              *)
(***************************************************************************)
DEBUG == 10

\* How a call ends: kind "ok" with the records, or the exception that
\* leaves it, with what the exception carries.
NoResult == [kind |-> "none", returncode |-> 0, output |-> <<>>,
             info |-> <<>>, records |-> <<>>]

Raised(kind, info) == [NoResult EXCEPT !.kind = kind, !.info = info]

\* A faulty variant: the exit code is not looked at (subprocess.call).
check_output_unchecked(p, code, out) ==
    IF p = "notfound" THEN Raised("OSError", <<>>) ELSE NoResult

\* subprocess.check_output(command, stderr=subprocess.STDOUT): OSError when
\* the executable cannot be started, CalledProcessError with the exit code
\* and the combined output when it exits non-zero, no exception otherwise.
check_output(p, code, out) ==
    IF p = "notfound" THEN Raised("OSError", <<>>)
    ELSE IF code # 0
         THEN [NoResult EXCEPT !.kind = "CalledProcessError",
                               !.returncode = code, !.output = out]
    ELSE NoResult

\* The csv reader (Modules/_csv.c) under the dialect csv.reader(statsFile)
\* has: "excel", with the comma for delimiter, the double quote for
\* quotechar, doublequote set, no escapechar, skipinitialspace and strict
\* unset.  The texts read hold no NUL byte and stay below the reader's field
\* size limit.

\* The 0 the reader hands to parse_process_char after the last character of
\* every line.
EndOfLine == ""

\* parse_reset: the reader before the first character of a record.
NewReader == [state |-> "START_RECORD", field |-> <<>>, fields |-> <<>>]

parse_save_field(r) ==
    [r EXCEPT !.fields = Append(@, StrV(r.field)), !.field = <<>>]

parse_add_char(r, c) == [r EXCEPT !.field = Append(@, c)]

\* The state after a field that a line end closes.
AfterLineEnd(c) == IF c = EndOfLine THEN "START_RECORD" ELSE "EAT_CRNL"

\* One step of the reader's state machine; the state "Error" stands for
\* the csv.Error it raises.
parse_process_char(r, c) ==
    IF r.state = "START_RECORD" /\ c = EndOfLine THEN r
    ELSE IF r.state = "START_RECORD" /\ c \in {"\n", "\r"}
         THEN [r EXCEPT !.state = "EAT_CRNL"]
    ELSE IF r.state \in {"START_RECORD", "START_FIELD"}
         THEN IF c \in {"\n", "\r", EndOfLine}
              THEN [parse_save_field(r) EXCEPT !.state = AfterLineEnd(c)]
              ELSE IF c = "\"" THEN [r EXCEPT !.state = "IN_QUOTED_FIELD"]
              ELSE IF c = ","
                   THEN [parse_save_field(r) EXCEPT !.state = "START_FIELD"]
              ELSE [parse_add_char(r, c) EXCEPT !.state = "IN_FIELD"]
    ELSE IF r.state = "IN_FIELD"
         THEN IF c \in {"\n", "\r", EndOfLine}
              THEN [parse_save_field(r) EXCEPT !.state = AfterLineEnd(c)]
              ELSE IF c = ","
                   THEN [parse_save_field(r) EXCEPT !.state = "START_FIELD"]
              ELSE parse_add_char(r, c)
    ELSE IF r.state = "IN_QUOTED_FIELD"
         THEN IF c = EndOfLine THEN r
              ELSE IF c = "\"" THEN [r EXCEPT !.state = "QUOTE_IN_QUOTED_FIELD"]
              ELSE parse_add_char(r, c)
    ELSE IF r.state = "QUOTE_IN_QUOTED_FIELD"
         THEN IF c = "\""
              THEN [parse_add_char(r, c) EXCEPT !.state = "IN_QUOTED_FIELD"]
              ELSE IF c = ","
                   THEN [parse_save_field(r) EXCEPT !.state = "START_FIELD"]
              ELSE IF c \in {"\n", "\r", EndOfLine}
                   THEN [parse_save_field(r) EXCEPT !.state = AfterLineEnd(c)]
              ELSE [parse_add_char(r, c) EXCEPT !.state = "IN_FIELD"]
    ELSE IF r.state = "EAT_CRNL"
         THEN IF c \in {"\n", "\r"} THEN r
              ELSE IF c = EndOfLine THEN [r EXCEPT !.state = "START_RECORD"]
              ELSE [r EXCEPT !.state = "Error"]
    ELSE r

\* The characters of one line, one after the other, then the 0.
RECURSIVE ProcessLine(_, _)
ProcessLine(r, chars) ==
    IF r.state = "Error" THEN r
    ELSE IF chars = <<>> THEN parse_process_char(r, EndOfLine)
    ELSE ProcessLine(parse_process_char(r, Head(chars)), Tail(chars))

\* Reader_iternext: lines are taken until a record is complete.  lines
\* holds the lines of the file without the newline that ends each of them.
\* When the file ends inside a quoted field, what was read is the last
\* record.
RECURSIVE Reader_iternext(_, _)
Reader_iternext(r, lines) ==
    IF lines = <<>>
    THEN IF r.field # <<>> \/ r.state = "IN_QUOTED_FIELD"
         THEN [kind |-> "row", row |-> parse_save_field(r).fields, rest |-> <<>>]
         ELSE [kind |-> "stop", row |-> <<>>, rest |-> <<>>]
    ELSE LET after == ProcessLine(r, Append(Head(lines), "\n"))
         IN  IF after.state = "Error"
             THEN [kind |-> "error", row |-> <<>>, rest |-> <<>>]
             ELSE IF after.state = "START_RECORD"
                  THEN [kind |-> "row", row |-> after.fields, rest |-> Tail(lines)]
             ELSE Reader_iternext(after, Tail(lines))

\* The rows Python 2's reader yields, and the csv.Error, if any, that
\* follows them.
RECURSIVE ReaderRows(_)
ReaderRows(lines) ==
    LET next == Reader_iternext(NewReader, lines)
    IN  IF next.kind = "stop" THEN [err |-> "", rows |-> <<>>]
        ELSE IF next.kind = "error" THEN [err |-> "csv.Error", rows |-> <<>>]
        ELSE [ReaderRows(next.rest) EXCEPT !.rows = <<next.row>> \o @]

\* A faulty variant: the first row is taken for a header.
csv_reader_header(py, lines) ==
    IF py >= 3
    THEN [err |-> IF lines # <<>> THEN "csv.Error" ELSE "", rows |-> <<>>]
    ELSE [ReaderRows(lines) EXCEPT !.rows = IF @ = <<>> THEN @ ELSE Tail(@)]

\* csv.reader(statsFile).  NamedTemporaryFile opens the file in its default
\* binary mode: Python 2's reader parses the lines of such a file, Python
\* 3's raises csv.Error on the first line it is handed.
csv_reader(py, lines) ==
    IF py >= 3
    THEN [err |-> IF lines # <<>> THEN "csv.Error" ELSE "", rows |-> <<>>]
    ELSE ReaderRows(lines)

\* [QueryStatistic(*row) for row in csv.reader(statsFile)]: the rows are
\* taken from the reader one by one, each is constructed before the next
\* is read, and the first exception, of a constructor or of the reader,
\* ends the comprehension.
RECURSIVE Comprehension(_, _)
Comprehension(py, reader) ==
    IF reader.rows = <<>>
    THEN IF reader.err # "" THEN Raised(reader.err, <<>>)
         ELSE [NoResult EXCEPT !.kind = "ok"]
    ELSE LET stat == QueryStatistic(py, Head(reader.rows))
         IN  IF stat.kind # "ok" THEN Raised(stat.kind, stat.info)
             ELSE LET rest == Comprehension(py, [reader EXCEPT !.rows = Tail(@)])
                  IN  IF rest.kind # "ok" THEN rest
                      ELSE [rest EXCEPT !.records = <<stat>> \o rest.records]

\* The body of the with statement after the process has ended.
RunResult(py, p, code, out, lines) ==
    LET called == check_output(p, code, out)
    IN  IF called.kind # "none" THEN called
        ELSE Comprehension(py, csv_reader(py, lines))

\* A faulty variant: the file is removed on the normal return only.
TempFileExit_returnOnly(delete, kind) == IF kind = "ok" THEN ~delete ELSE TRUE

\* Leaving the with block closes the NamedTemporaryFile on the return and
\* on every exception; closing removes the file when delete is set.  The
\* value is whether the file is still there.
TempFileExit(delete, kind) == ~delete

MaxRows == 2

\* Lines the dbbench process may leave in the stats file, each ended by a
\* newline: plain rows, a row of three fields, a rejected number after a
\* blank, an empty line, a row with a quoted name that holds a comma and a
\* doubled quote, with padded numbers and a carriage return at its end, a
\* carriage return inside a row, a quoted field left open, and a row with
\* quotes inside its fields.
RowTexts ==
    { <<"a", ",", "0", ",", "5", ",", "1">>,
      <<"b", ",", "5", ",", "1", "2", ",", "3">>,
      <<"a", ",", "1", ",", "2">>,
      <<"a", ",", " ", "x", ",", "2", ",", "3">>,
      <<>>,
      <<"\"", "a", ",", "\"", "\"", "b", "\"", ",", " ", "1", " ", ",",
        "+", "2", ",", "\"", "3", "\"", "\r">>,
      <<"a", ",", "1", "\r", ",", "2", ",", "3">>,
      <<"\"", "a">>,
      <<"a", "\"", "b", ",", "\"", "1", "\"", "2", ",", "3", ",", "4">> }

Files == UNION { [1..n -> RowTexts] : n \in 0..MaxRows }

ExitCodes == {0, 1, 2}

Outputs == { <<>>, <<"e", "r", "r">> }

Levels == {5, 10, 30}

Interpreters == {2, 3}

RunRest ==
    /\ level = 30
    /\ pyMajor \in Interpreters
    /\ pc = "rest"
    /\ startLevel = 0
    /\ keepTemporaryFiles = FALSE
    /\ fileExists = FALSE
    /\ fileLines = <<>>
    /\ proc = "none"
    /\ exitCode = 0
    /\ output = <<>>
    /\ result = NoResult

RunInit ==
    /\ level \in Levels
    /\ pyMajor \in Interpreters
    /\ pc = "idle"
    /\ startLevel = 0
    /\ keepTemporaryFiles = FALSE
    /\ fileExists = FALSE
    /\ fileLines = <<>>
    /\ proc = "none"
    /\ exitCode = 0
    /\ output = <<>>
    /\ result = NoResult

\* logger.setLevel, by the caller or another thread, at any time.
SetLevel(l) ==
    /\ level' = l
    /\ UNCHANGED <<pyMajor, pc, startLevel, keepTemporaryFiles, fileExists,
                   fileLines, proc, exitCode, output, result>>
    /\ UNCHANGED <<humVars, qsVars, dbVars, cqVars>>

\* RunDbbench up to the start of the process: the level is read, the
\* temporary file is created and the command is started.
RunStart ==
    /\ pc \in {"idle", "done"}
    /\ pc' = "running"
    /\ startLevel' = level
    /\ keepTemporaryFiles' = (level <= DEBUG)
    /\ fileExists' = TRUE
    /\ fileLines' = <<>>
    /\ proc' = "none"
    /\ exitCode' = 0
    /\ output' = <<>>
    /\ result' = NoResult
    /\ UNCHANGED <<level, pyMajor>>
    /\ UNCHANGED <<humVars, qsVars, dbVars, cqVars>>

\* The dbbench process writes its rows, prints its output and exits.
DbbenchExit(lines, code, out) ==
    /\ pc = "running"
    /\ pc' = "exited"
    /\ proc' = "exited"
    /\ fileLines' = lines
    /\ exitCode' = code
    /\ output' = out
    /\ UNCHANGED <<level, pyMajor, startLevel, keepTemporaryFiles, fileExists,
                   result>>
    /\ UNCHANGED <<humVars, qsVars, dbVars, cqVars>>

\* No dbbench executable is found on the PATH.
DbbenchNotFound ==
    /\ pc = "running"
    /\ pc' = "exited"
    /\ proc' = "notfound"
    /\ UNCHANGED <<level, pyMajor, startLevel, keepTemporaryFiles, fileExists,
                   fileLines, exitCode, output, result>>
    /\ UNCHANGED <<humVars, qsVars, dbVars, cqVars>>

\* The rest of RunDbbench: check_output returns or raises, the rows are
\* read, and the with block is left.
RunFinish ==
    /\ pc = "exited"
    /\ pc' = "done"
    /\ result' = RunResult(pyMajor, proc, exitCode, output, fileLines)
    /\ fileExists' = TempFileExit(~keepTemporaryFiles, result'.kind)
    /\ UNCHANGED <<level, pyMajor, startLevel, keepTemporaryFiles, fileLines,
                   proc, exitCode, output>>
    /\ UNCHANGED <<humVars, qsVars, dbVars, cqVars>>

RunNext ==
    \/ \E l \in Levels : SetLevel(l)
    \/ RunStart
    \/ \E lines \in Files, code \in ExitCodes, out \in Outputs :
           DbbenchExit(lines, code, out)
    \/ DbbenchNotFound
    \/ RunFinish

(***************************************************************************)
(* Specifications: one per component, the other components at rest.        *)
(***************************************************************************)
InitHumanize == HumInit /\ QsRest /\ DbRest /\ CqRest /\ RunRest

InitQueryStatistic == HumRest /\ QsInit /\ DbRest /\ CqRest /\ RunRest

InitDatabaseSpec == HumRest /\ QsRest /\ DbInit /\ CqRest /\ RunRest

InitCleanQuery == HumRest /\ QsRest /\ DbRest /\ CqInit /\ RunRest

InitRun == HumRest /\ QsRest /\ DbRest /\ CqRest /\ RunInit

SpecHumanize == InitHumanize /\ [][HumNext]_vars

SpecQueryStatistic == InitQueryStatistic /\ [][QsNext]_vars

SpecDatabaseSpec == InitDatabaseSpec /\ [][DbNext]_vars

SpecCleanQuery == InitCleanQuery /\ [][CqNext]_vars

SpecRun == InitRun /\ [][RunNext]_vars

(***************************************************************************)
(* Notions the properties below are stated with.                           *)
(***************************************************************************)
\* The decimal numeral of an integer.
DecimalText(n) ==
    IF n < 0 THEN <<"-">> \o DigitsText(NatDigits(0 - n))
    ELSE DigitsText(NatDigits(n))

\* A decimal numeral: digits, after an optional minus sign.
IsNumeral(s) ==
    /\ s # <<>>
    /\ LET digits == IF Head(s) = "-" THEN Tail(s) ELSE s
       IN  digits # <<>> /\ \A i \in 1..Len(digits) : IsDigitChar(digits[i])

\* A text with a character no integer literal holds.
HasJunk(s) ==
    \E i \in 1..Len(s) :
        ~(IsDigitChar(s[i]) \/ IsSpace(s[i]) \/ s[i] \in {"+", "-", "_"})

\* A line of the stats file as CSV spells a row.  The carriage returns at
\* the end of the line belong to the line end.  A comma separates two
\* fields when an even number of quote characters precedes it.  A field is
\* spelled plainly, without a quote or a carriage return, or between two
\* quotes, each quote of the field written twice.
RECURSIVE WithoutLineEnd(_)
WithoutLineEnd(line) ==
    IF line # <<>> /\ line[Len(line)] = "\r"
    THEN WithoutLineEnd(SubSeq(line, 1, Len(line) - 1))
    ELSE line

Separators(text) ==
    { i \in 1..Len(text) :
         /\ text[i] = ","
         /\ Cardinality({ j \in 1..(i - 1) : text[j] = "\"" }) % 2 = 0 }

\* The k-th separator of the text; its start for k = 0, its end after the
\* last one.
SeparatorAt(text, k) ==
    IF k = 0 THEN 0
    ELSE IF k > Cardinality(Separators(text)) THEN Len(text) + 1
    ELSE CHOOSE i \in Separators(text) :
             Cardinality({ j \in Separators(text) : j < i }) = k - 1

Spellings(line) ==
    LET text == WithoutLineEnd(line)
    IN  [k \in 1..(Cardinality(Separators(text)) + 1) |->
            SubSeq(text, SeparatorAt(text, k - 1) + 1, SeparatorAt(text, k) - 1)]

PlainSpelling(f) == \A i \in 1..Len(f) : f[i] \notin {"\"", "\r", "\n"}

RECURSIVE QuotesInPairs(_)
QuotesInPairs(t) ==
    IF t = <<>> THEN TRUE
    ELSE IF Head(t) # "\"" THEN QuotesInPairs(Tail(t))
    ELSE Len(t) >= 2 /\ t[2] = "\"" /\ QuotesInPairs(Tail(Tail(t)))

QuotedSpelling(f) ==
    /\ Len(f) >= 2
    /\ f[1] = "\"" /\ f[Len(f)] = "\""
    /\ QuotesInPairs(SubSeq(f, 2, Len(f) - 1))

RECURSIVE PairsHalved(_)
PairsHalved(t) ==
    IF t = <<>> THEN <<>>
    ELSE IF Head(t) = "\"" THEN <<"\"">> \o PairsHalved(Tail(Tail(t)))
    ELSE <<Head(t)>> \o PairsHalved(Tail(t))

\* The field a spelling stands for.
Spelled(f) ==
    IF QuotedSpelling(f) THEN PairsHalved(SubSeq(f, 2, Len(f) - 1)) ELSE f

IsCsvLine(line) ==
    \A k \in 1..Len(Spellings(line)) :
        PlainSpelling(Spellings(line)[k]) \/ QuotedSpelling(Spellings(line)[k])

\* The fields of a line that spells a row.
Fields(line) == [k \in 1..Len(Spellings(line)) |-> Spelled(Spellings(line)[k])]

\* A text that reads as an integer: a sign, if any, and digits, whitespace
\* and grouping underscores apart.
IsIntegerText(t) ==
    LET body   == SelectSeq(t, LAMBDA c : ~IsSpace(c) /\ c # "_")
        digits == IF body # <<>> /\ Head(body) \in {"+", "-"} THEN Tail(body)
                  ELSE body
    IN  digits # <<>> /\ \A i \in 1..Len(digits) : IsDigitChar(digits[i])

\* A row with a field count other than four, or with a numeric field that
\* is no number.
Malformed(line) ==
    \/ ~IsCsvLine(line)
    \/ Len(Fields(line)) # 4
    \/ \E k \in 2..4 : ~IsIntegerText(Fields(line)[k])

HasMalformed(lines) == \E i \in 1..Len(lines) : Malformed(lines[i])

FirstMalformed(lines) ==
    CHOOSE i \in 1..Len(lines) :
        Malformed(lines[i]) /\ \A j \in 1..(i - 1) : ~Malformed(lines[j])

Finished == pc = "done" /\ proc = "exited"

(***************************************************************************)
(* C1: a RunDbbench call whose process exits non-zero ends in the          *)
(* CalledProcessError that carries the exit code and the combined output,  *)
(* and hands the caller no record, whatever rows the stats file holds.     *)
(***************************************************************************)
C1_NonZeroExitRaises ==
    (Finished /\ exitCode # 0) =>
        /\ result.kind = "CalledProcessError"
        /\ result.returncode = exitCode
        /\ result.output = output
        /\ result.records = <<>>

\* The process left a well-formed row, printed "err" and exited 2.
C1_Witness ==
    /\ Finished
    /\ exitCode = 2
    /\ output = <<"e", "r", "r">>
    /\ fileLines = << <<"a", ",", "0", ",", "5", ",", "1">> >>
    /\ result.kind = "CalledProcessError"

(***************************************************************************)
(* C2: once a RunDbbench call has ended, by its return or by any           *)
(* exception, its temporary stats file is gone, unless the logger's        *)
(* effective level was DEBUG or lower when the call began, and then it is  *)
(* still there; until the call ends the file exists.                       *)
(***************************************************************************)
C2_TempFileReleased ==
    /\ pc = "done" => (fileExists <=> startLevel <= DEBUG)
    /\ pc \in {"running", "exited"} => fileExists

\* A call that began above DEBUG ended in a ValueError of a row, the level
\* having been lowered to DEBUG meanwhile: the file is gone.
C2_Witness ==
    /\ pc = "done"
    /\ result.kind = "ValueError"
    /\ startLevel > DEBUG
    /\ level <= DEBUG
    /\ ~fileExists

(***************************************************************************)
(* C3, as claimed: a call whose process exits 0 and whose stats file       *)
(* holds a malformed row fails with an error that identifies that row (by  *)
(* its text or its index) and returns no record.                           *)
(***************************************************************************)
C3_ErrorIdentifiesRow ==
    (Finished /\ exitCode = 0 /\ HasMalformed(fileLines)) =>
        LET i == FirstMalformed(fileLines) IN
        /\ result.kind \notin {"ok", "none"}
        /\ result.records = <<>>
        /\ \/ result.info = fileLines[i]
           \/ result.info = DecimalText(i)

\* The integer v denotes: an int itself, a str the number its sign and
\* digits spell, whitespace, grouping underscores, a plus sign and leading
\* zeros apart.
RECURSIVE WithoutLeadingZeros(_)
WithoutLeadingZeros(d) ==
    IF Len(d) > 1 /\ Head(d) = "0" THEN WithoutLeadingZeros(Tail(d)) ELSE d

Denotes(v, n) ==
    IF v.t = "int" THEN v.n = n
    ELSE LET body   == SelectSeq(v.s, LAMBDA c : ~IsSpace(c) /\ c # "_")
             signed == body # <<>> /\ Head(body) \in {"+", "-"}
             mag    == WithoutLeadingZeros(IF signed THEN Tail(body) ELSE body)
         IN  /\ v.t = "str"
             /\ IsIntegerText(v.s)
             /\ DecimalText(n) = IF Head(body) = "-" /\ mag # <<"0">>
                                 THEN <<"-">> \o mag ELSE mag

(***************************************************************************)
(* C4: a RunDbbench call that returns over a stats file whose every line   *)
(* spells a row has one record per line, in the order of the lines,        *)
(* record i carrying the name field of line i and the three integers its   *)
(* numeric fields denote; no line is taken for a header.                   *)
(***************************************************************************)
C4_RecordsMatchRows ==
    (Finished /\ result.kind = "ok"
       /\ \A i \in 1..Len(fileLines) : IsCsvLine(fileLines[i])) =>
        /\ Len(result.records) = Len(fileLines)
        /\ \A i \in 1..Len(fileLines) :
              LET row == Fields(fileLines[i])
                  rec == result.records[i]
              IN  /\ Len(row) = 4
                  /\ rec.kind = "ok"
                  /\ rec.name = StrV(row[1])
                  /\ Denotes(StrV(row[2]), rec.startMicros)
                  /\ Denotes(StrV(row[3]), rec.elapsedMicros)
                  /\ Denotes(StrV(row[4]), rec.rowsAffected)

\* The row b,5,12,3 and then the row "a,""b", 1 ,+2,"3" with a carriage
\* return at its end came back as two records in that order, the second
\* with the name a,"b and the numbers 1, 2 and 3.
C4_Witness ==
    /\ Finished
    /\ result.kind = "ok"
    /\ fileLines = << <<"b", ",", "5", ",", "1", "2", ",", "3">>,
                      <<"\"", "a", ",", "\"", "\"", "b", "\"", ",", " ", "1",
                        " ", ",", "+", "2", ",", "\"", "3", "\"", "\r">> >>
    /\ Len(result.records) = 2
    /\ result.records[1].elapsedMicros = 12
    /\ result.records[2].name = StrV(<<"a", ",", "\"", "b">>)
    /\ result.records[2].startMicros = 1
    /\ result.records[2].rowsAffected = 3

(***************************************************************************)
(* C5, as claimed: every QueryStatistic that is constructed has a          *)
(* non-negative start offset, elapsed time and rows affected.              *)
(***************************************************************************)
C5_FieldsNonNegative ==
    (qs.pc = "done" /\ qs.out.kind = "ok") =>
        /\ qs.out.startMicros >= 0
        /\ qs.out.elapsedMicros >= 0
        /\ qs.out.rowsAffected >= 0

(***************************************************************************)
(* C5, amended: every QueryStatistic that is constructed has a start       *)
(* offset, elapsed time and rows affected that are the integers its        *)
(* arguments denote; an argument that denotes a negative number yields a   *)
(* record carrying that negative integer.                                  *)
(***************************************************************************)
C5_FieldsAreDenotedIntegers ==
    (qs.pc = "done" /\ qs.out.kind = "ok") =>
        /\ Len(qs.args) = 4
        /\ qs.out.name = qs.args[1]
        /\ Denotes(qs.args[2], qs.out.startMicros)
        /\ Denotes(qs.args[3], qs.out.elapsedMicros)
        /\ Denotes(qs.args[4], qs.out.rowsAffected)

\* QueryStatistic("q", "-1", 7, "12") was constructed, its start is -1.
C5_Witness ==
    /\ qs.pc = "done"
    /\ qs.args = <<StrV(<<"q">>), StrV(<<"-", "1">>), IntV(7), StrV(<<"1", "2">>)>>
    /\ qs.out.kind = "ok"
    /\ qs.out.startMicros = 0 - 1

(***************************************************************************)
(* C6: a DatabaseSpec constructed from arguments that are each absent,     *)
(* None, empty or zero, or a value (for the port, an integer) has every    *)
(* field equal to its argument when that is truthy and to its default      *)
(* otherwise; no field of a DatabaseSpec is None or unset.                 *)
(***************************************************************************)
FieldDefaults ==
    [host |-> StrV(Localhost), port |-> IntV(DefaultPort), user |-> StrV(Root),
     password |-> StrV(<<>>), database |-> StrV(<<>>), driver |-> StrV(Mysql)]

FieldNames == {"host", "port", "user", "password", "database", "driver"}

C6_FieldsDefaulted ==
    db.pc = "done" =>
        /\ (db.args.port.t # "str" \/ db.args.port.s = <<>>) =>
              /\ db.out.kind = "ok"
              /\ \A f \in FieldNames :
                    db.out[f] = IF Truthy(db.args[f]) THEN db.args[f]
                                ELSE FieldDefaults[f]
        /\ db.out.kind = "ok" =>
              /\ \A f \in FieldNames \ {"port"} :
                    db.out[f] = IF Truthy(db.args[f]) THEN db.args[f]
                                ELSE FieldDefaults[f]
              /\ \A f \in FieldNames \ {"port"} : db.out[f].t = "str"
              /\ db.out.port.t = "int"

\* DatabaseSpec(host=None, port=0, user="", database="x", driver=None).
C6_Witness ==
    /\ db.pc = "done"
    /\ db.args = [host |-> None, port |-> IntV(0), user |-> StrV(<<>>),
                  password |-> Absent, database |-> StrV(<<"x">>),
                  driver |-> None]
    /\ db.out = [kind |-> "ok", host |-> StrV(Localhost),
                 port |-> IntV(DefaultPort), user |-> StrV(Root),
                 password |-> StrV(<<>>), database |-> StrV(<<"x">>),
                 driver |-> StrV(Mysql)]

(***************************************************************************)
(* C7, as claimed: constructing a DatabaseSpec either fails or yields a    *)
(* port that is a positive integer.                                        *)
(***************************************************************************)
C7_PortPositive ==
    db.pc = "done" =>
        \/ db.out.kind = "ValueError"
        \/ db.out.kind = "ok" /\ db.out.port.t = "int" /\ db.out.port.n > 0

(***************************************************************************)
(* C7, amended: constructing a DatabaseSpec either fails with the          *)
(* ValueError of int(), which it does only for a non-empty text that is    *)
(* no plain numeral and always for a text holding a character that is no   *)
(* digit, sign, underscore or whitespace, or yields a port that is an      *)
(* integer: 3306 for an absent or falsy port, the number a truthy port     *)
(* denotes otherwise, be it positive, zero (the text "0") or negative.     *)
(***************************************************************************)
C7_PortCoerced ==
    db.pc = "done" =>
        LET port == db.args.port IN
        /\ db.out.kind \in {"ok", "ValueError"}
        /\ db.out.kind = "ValueError" =>
              (port.t = "str" /\ port.s # <<>> /\ ~IsNumeral(port.s))
        /\ (port.t = "str" /\ HasJunk(port.s)) => db.out.kind = "ValueError"
        /\ db.out.kind = "ok" =>
              /\ db.out.port.t = "int"
              /\ (port.t \in {"absent", "None"} \/ ~Truthy(port)) =>
                    db.out.port.n = DefaultPort
              /\ Truthy(port) => Denotes(port, db.out.port.n)

\* DatabaseSpec(port="0") was constructed, with port 0.
C7_Witness ==
    /\ db.pc = "done"
    /\ db.args.port = StrV(<<"0">>)
    /\ db.out.kind = "ok"
    /\ db.out.port = IntV(0)

(***************************************************************************)
(* C8, as claimed: CleanQuery is idempotent, CleanQuery(CleanQuery(s))     *)
(* returns the string CleanQuery(s) returns.                               *)
(***************************************************************************)
C8_Idempotent ==
    cq.pc = "done" =>
        /\ cq.out.kind = "ok"
        /\ cq.again = cq.out

(***************************************************************************)
(* C9, as claimed: CleanQuery(s) returns a string with no whitespace at    *)
(* either end and no two whitespace characters in a row.                   *)
(***************************************************************************)
C9_WhitespaceCollapsed ==
    cq.pc = "done" =>
        /\ cq.out.kind = "ok"
        /\ LET v == cq.out.value IN
           /\ v # <<>> => ~IsSpace(v[1]) /\ ~IsSpace(v[Len(v)])
           /\ \A i \in 1..(Len(v) - 1) : ~(IsSpace(v[i]) /\ IsSpace(v[i + 1]))

====
